---- MODULE Spec2Model ----
(***************************************************************************)
(* Vulkan extended-feature negotiation of cubecl-wgpu                      *)
(* (crates/cubecl-wgpu/src/backend/vulkan/features.rs).                    *)
(*                                                                         *)
(* One ExtendedFeatures value is followed from Self::default() through     *)
(* from_adapter (fill_extensions, then fill_features with its chain build, *)
(* the native query and zero_pointers) and add_to_device_create, up to the *)
(* device-creation call that consumes the chain.                           *)
(*                                                                         *)
(* A descriptor is named by its field in ExtendedFeatures; a pointer is    *)
(* the name of the structure it points at, or NULL.                        *)
(***************************************************************************)
EXTENDS Integers, Sequences, FiniteSets, TLC

(* ------------------------------ bounds -------------------------------- *)

\* Longest list required_device_extensions returns in the model.
MaxRequiredLen == 2
\* Number of boolean flags carried by each feature descriptor.
FlagsPer == 1
\* Longest p_next chain already hanging off the incoming DeviceCreateInfo.
MaxInfoChain == 2

(* --------------------------- static tables ---------------------------- *)

NULL == "null"
\* An address outside the ExtendedFeatures value and outside the info chain.
STALE == "stale"

KHR_COOPERATIVE_MATRIX_NAME == "VK_KHR_cooperative_matrix"
EXT_SHADER_ATOMIC_FLOAT_NAME == "VK_EXT_shader_atomic_float"
EXT_SHADER_ATOMIC_FLOAT2_NAME == "VK_EXT_shader_atomic_float2"
KHR_SHADER_FLOAT_CONTROLS2_NAME == "VK_KHR_shader_float_controls2"

\* The five descriptors ExtendedFeatures always holds, in field order.
MandatoryOrder ==
    <<"mem_model", "float16_int8", "buf_16", "buf_8", "subgroup_extended">>

\* The four Option<..> descriptors, in field order.
OptionalOrder == <<"cmma", "atomic_float", "atomic_float2", "float_controls2">>

Range(s) == {s[i] : i \in 1..Len(s)}

Mandatory == Range(MandatoryOrder)
Optional == Range(OptionalOrder)
Descriptors == Mandatory \cup Optional

\* The structures an incoming DeviceCreateInfo may already chain (they belong
\* to the caller, not to ExtendedFeatures).
InfoNodePool == <<"info_ext1", "info_ext2", "info_ext3", "info_ext4">>
InfoNodes == {InfoNodePool[i] : i \in 1..MaxInfoChain}

Nodes == Descriptors \cup InfoNodes

\* Names the adapter's required_device_extensions may return: one that is not
\* among the four probed here and two that are.
RequiredPool ==
    {"VK_KHR_swapchain", KHR_COOPERATIVE_MATRIX_NAME, EXT_SHADER_ATOMIC_FLOAT_NAME}

\* The four names fill_extensions probes.
ProbedNames ==
    {KHR_COOPERATIVE_MATRIX_NAME, EXT_SHADER_ATOMIC_FLOAT_NAME,
     EXT_SHADER_ATOMIC_FLOAT2_NAME, KHR_SHADER_FLOAT_CONTROLS2_NAME}

NoDuplicates(s) == \A i, j \in 1..Len(s) : s[i] = s[j] => i = j

\* The duplicate-free lists of at most MaxRequiredLen names.
RequiredLists ==
    UNION {{s \in [1..n -> RequiredPool] : NoDuplicates(s)} : n \in 0..MaxRequiredLen}

Flags == 1..FlagsPer

\* The runtime's requested features, as the descriptor flags they ask for.
FeatureRequests == {{}} \cup {{<<d, 1>>} : d \in Mandatory}

(* ------------------------------- state -------------------------------- *)

VARIABLES
    pc,               \* position in from_adapter / add_to_device_create
    required,         \* adapter: answer of required_device_extensions(features)
    supported,        \* adapter: names for which supports_extension is true
    features,         \* the requested wgpu Features
    extensions,       \* self.extensions
    some,             \* the Option fields that are Some
    p_next,           \* p_next of every descriptor and info structure
    flags,            \* the flags each descriptor holds
    features_p_next,  \* p_next of the local PhysicalDeviceFeatures2
    info_p_next,      \* p_next of the DeviceCreateInfo
    incoming,         \* the chain the DeviceCreateInfo came with
    reported,         \* adapter: the flags its feature query answers
    queryChain,       \* the structures the native query walked
    log               \* what has been done so far, in order

vars ==
    <<pc, required, supported, features, extensions, some, p_next, flags,
      features_p_next, info_p_next, incoming, reported, queryChain, log>>

\* Entries of log: a descriptor comes into being, supports_extension is asked
\* about a name, a chain is built, the native query is made, zero_pointers runs.
Created(d) == <<"create", d>>
Probed(name) == <<"probe", name>>
LinkedQuery == <<"link", "query">>
Queried == <<"query", "native">>
Sanitized == <<"sanitize", "all">>
LinkedDeviceCreate == <<"link", "device_create">>

\* Self::default(): no extension, every Option None, every flag false, every
\* p_next null; the five mandatory descriptors exist from here on.
Init ==
    /\ pc = "start"
    /\ required \in RequiredLists
    /\ supported \in SUBSET ProbedNames
    /\ features \in FeatureRequests
    /\ extensions = <<>>
    /\ some = {}
    /\ p_next = [n \in Nodes |-> NULL]
    /\ flags = [d \in Descriptors |-> {}]
    /\ features_p_next = NULL
    /\ info_p_next = NULL
    /\ incoming = <<>>
    /\ reported = [d \in Descriptors |-> {}]
    /\ queryChain = <<>>
    /\ log = [i \in 1..Len(MandatoryOrder) |-> Created(MandatoryOrder[i])]

(* --------------------------- fill_extensions -------------------------- *)

\* probe without its supports_extension test.
probe_unconditional(s, sup, name, field) ==
    [extensions |-> Append(s.extensions, name), some |-> s.some \cup {field},
     log |-> s.log \o <<Probed(name), Created(field)>>]

\* One `if phys_caps.supports_extension(name) { push(name); field = Some(..) }`.
probe(s, sup, name, field) ==
    IF name \in sup
    THEN [extensions |-> Append(s.extensions, name), some |-> s.some \cup {field},
          log |-> s.log \o <<Probed(name), Created(field)>>]
    ELSE [s EXCEPT !.log = Append(s.log, Probed(name))]

\* fill_extensions whose last block tests the name of the block above it.
fill_extensions_copied_test(req, sup) ==
    LET s0 == [extensions |-> req, some |-> {}, log |-> <<>>]
        s1 == probe(s0, sup, KHR_COOPERATIVE_MATRIX_NAME, "cmma")
        s2 == probe(s1, sup, EXT_SHADER_ATOMIC_FLOAT_NAME, "atomic_float")
        s3 == probe(s2, sup, EXT_SHADER_ATOMIC_FLOAT2_NAME, "atomic_float2")
        s4 == IF EXT_SHADER_ATOMIC_FLOAT2_NAME \in sup
              THEN [extensions |-> Append(s3.extensions, KHR_SHADER_FLOAT_CONTROLS2_NAME),
                    some |-> s3.some \cup {"float_controls2"},
                    log |-> s3.log \o <<Probed(EXT_SHADER_ATOMIC_FLOAT2_NAME),
                                        Created("float_controls2")>>]
              ELSE [s3 EXCEPT !.log = Append(s3.log, Probed(EXT_SHADER_ATOMIC_FLOAT2_NAME))]
    IN  s4

\* fill_extensions with its first two blocks in the other order.
fill_extensions_swapped(req, sup) ==
    LET s0 == [extensions |-> req, some |-> {}, log |-> <<>>]
        s1 == probe(s0, sup, EXT_SHADER_ATOMIC_FLOAT_NAME, "atomic_float")
        s2 == probe(s1, sup, KHR_COOPERATIVE_MATRIX_NAME, "cmma")
        s3 == probe(s2, sup, EXT_SHADER_ATOMIC_FLOAT2_NAME, "atomic_float2")
        s4 == probe(s3, sup, KHR_SHADER_FLOAT_CONTROLS2_NAME, "float_controls2")
    IN  s4

fill_extensions(req, sup) ==
    LET s0 == [extensions |-> req, some |-> {}, log |-> <<>>]
        s1 == probe(s0, sup, KHR_COOPERATIVE_MATRIX_NAME, "cmma")
        s2 == probe(s1, sup, EXT_SHADER_ATOMIC_FLOAT_NAME, "atomic_float")
        s3 == probe(s2, sup, EXT_SHADER_ATOMIC_FLOAT2_NAME, "atomic_float2")
        s4 == probe(s3, sup, KHR_SHADER_FLOAT_CONTROLS2_NAME, "float_controls2")
    IN  s4

FillExtensions ==
    /\ pc = "start"
    /\ LET r == fill_extensions(required, supported)
       IN  /\ extensions' = r.extensions
           /\ some' = r.some
           /\ log' = log \o r.log
    /\ pc' = "probed"
    /\ UNCHANGED <<required, supported, features, p_next, flags, features_p_next,
                   info_p_next, incoming, reported, queryChain>>

(* ---------------------------- p_next chains --------------------------- *)

\* The structures met from address a by following p_next, as
\* ash's ptr_chain_iter and the driver do: the walk ends at the first address
\* that is not a structure (NULL on a well-formed chain), or when fuel runs out.
RECURSIVE Walk(_, _, _)
Walk(a, pn, fuel) ==
    IF a \notin DOMAIN pn \/ fuel = 0
    THEN <<>>
    ELSE <<a>> \o Walk(pn[a], pn, fuel - 1)

Chain(a, pn) == Walk(a, pn, Cardinality(Nodes) + 1)

\* push_next that hangs the pushed structure at the end of the root's chain.
push_next_appends(chain, n) ==
    LET w == Chain(chain.head, chain.pn)
    IN  IF w = <<>>
        THEN [head |-> n, pn |-> chain.pn]
        ELSE [head |-> chain.head, pn |-> [chain.pn EXCEPT ![w[Len(w)]] = n]]

\* push_next that does not hang the root's old chain behind the pushed structure.
push_next_drops_chain(chain, n) ==
    [head |-> n, pn |-> chain.pn]

\* ash 0.38 push_next on a root structure: the pushed structure (with whatever
\* chain already hangs off it) goes between the root and the root's old chain:
\*   last(ptr_chain_iter(next)).p_next = self.p_next; self.p_next = next.
push_next(chain, n) ==
    LET w == Chain(n, chain.pn)
        last == w[Len(w)]
    IN  [head |-> n, pn |-> [chain.pn EXCEPT ![last] = chain.head]]

RECURSIVE PushAll(_, _)
PushAll(chain, sel) ==
    IF sel = <<>>
    THEN chain
    ELSE PushAll(push_next(chain, Head(sel)), Tail(sel))

\* push_opt: the Option fields that are Some, in the order they are offered.
push_opt(sm) == SelectSeq(OptionalOrder, LAMBDA f : f \in sm)

(* ---------------------------- fill_features --------------------------- *)

\* fill_features without its push of buf_16.
QuerySelection_without_buf_16(sm) ==
    SelectSeq(MandatoryOrder, LAMBDA d : d # "buf_16") \o push_opt(sm)

\* fill_features without its push_opt calls.
QuerySelection_mandatory_only(sm) == MandatoryOrder

\* The structures fill_features pushes onto PhysicalDeviceFeatures2, in push order.
QuerySelection(sm) == MandatoryOrder \o push_opt(sm)

BuildQueryChain ==
    /\ pc = "probed"
    /\ LET c == PushAll([head |-> NULL, pn |-> p_next], QuerySelection(some))
       IN  /\ features_p_next' = c.head
           /\ p_next' = c.pn
    /\ pc' = "queryBuilt"
    /\ log' = Append(log, LinkedQuery)
    /\ UNCHANGED <<required, supported, features, extensions, some, flags,
                   info_p_next, incoming, reported, queryChain>>

\* What the adapter may answer: every flag, no flag, or every flag but one of
\* a descriptor the set holds.
ReportedAnswers(sm) ==
    {[d \in Descriptors |-> Flags], [d \in Descriptors |-> {}]}
    \cup {[d \in Descriptors |-> IF d = x THEN Flags \ {f} ELSE Flags] :
            x \in Mandatory \cup sm, f \in Flags}

\* What the driver may leave in the p_next fields of the structures it walked:
\* the links as built, an address outside the set, or the address of mem_model.
LinkOutcomes == {"kept", "stale", "first"}

left_links(pn, w, out) ==
    [n \in DOMAIN pn |->
        IF n \in Range(w) /\ out = "stale" THEN STALE
        ELSE IF n \in Range(w) /\ out = "first" THEN "mem_model"
        ELSE pn[n]]

\* vkGetPhysicalDeviceFeatures2 writes its answer into every structure of the chain.
query_flags(fl, w, rep) ==
    [d \in DOMAIN fl |-> IF d \in Range(w) THEN rep[d] ELSE fl[d]]

GetPhysicalDeviceFeatures2 ==
    /\ pc = "queryBuilt"
    /\ \E rep \in ReportedAnswers(some), out \in LinkOutcomes :
         LET w == Chain(features_p_next, p_next)
         IN  /\ reported' = rep
             /\ queryChain' = w
             /\ flags' = query_flags(flags, w, rep)
             /\ p_next' = left_links(p_next, w, out)
    /\ pc' = "queried"
    /\ log' = Append(log, Queried)
    /\ UNCHANGED <<required, supported, features, extensions, some,
                   features_p_next, info_p_next, incoming>>

\* zero_pointers without its last `if let Some`.
zero_pointers_without_float_controls2(pn, sm) ==
    [n \in DOMAIN pn |->
        IF n \in Mandatory \cup (Optional \cap (sm \ {"float_controls2"}))
        THEN NULL ELSE pn[n]]

\* zero_pointers without its buf_8 line.
zero_pointers_without_buf_8(pn, sm) ==
    [n \in DOMAIN pn |->
        IF n \in (Mandatory \ {"buf_8"}) \cup (Optional \cap sm)
        THEN NULL ELSE pn[n]]

\* The fields zero_pointers resets: the five mandatory ones and each Some.
zero_pointers(pn, sm) ==
    [n \in DOMAIN pn |-> IF n \in Mandatory \cup (Optional \cap sm) THEN NULL ELSE pn[n]]

\* zero_pointers that resets each whole descriptor instead of its p_next.
ZeroPointers_resets_descriptors ==
    /\ pc = "queried"
    /\ p_next' = zero_pointers(p_next, some)
    /\ flags' = [d \in Descriptors |-> {}]
    /\ features_p_next' = NULL
    /\ pc' = "ready"
    /\ log' = Append(log, Sanitized)
    /\ UNCHANGED <<required, supported, features, extensions, some,
                   info_p_next, incoming, reported, queryChain>>

\* fill_features without its call of zero_pointers.
ZeroPointers_skipped ==
    /\ pc = "queried"
    /\ features_p_next' = NULL
    /\ pc' = "ready"
    /\ UNCHANGED <<required, supported, features, extensions, some, p_next, flags,
                   info_p_next, incoming, reported, queryChain, log>>

\* zero_pointers, then fill_features and from_adapter return (the local
\* PhysicalDeviceFeatures2 is gone).
ZeroPointers ==
    /\ pc = "queried"
    /\ p_next' = zero_pointers(p_next, some)
    /\ features_p_next' = NULL
    /\ pc' = "ready"
    /\ log' = Append(log, Sanitized)
    /\ UNCHANGED <<required, supported, features, extensions, some, flags,
                   info_p_next, incoming, reported, queryChain>>

(* ------------------------- add_to_device_create ----------------------- *)

\* add_to_device_create without its last push_opt.
DeviceCreateSelection_without_float_controls2(sm) ==
    MandatoryOrder \o push_opt(sm \ {"float_controls2"})

\* add_to_device_create without its push of subgroup_extended.
DeviceCreateSelection_without_subgroup_extended(sm) ==
    SelectSeq(MandatoryOrder, LAMBDA d : d # "subgroup_extended") \o push_opt(sm)

\* The structures add_to_device_create pushes onto the DeviceCreateInfo, in push order.
DeviceCreateSelection(sm) == MandatoryOrder \o push_opt(sm)

\* A DeviceCreateInfo whose p_next chain is the first k caller structures.
IncomingInfo(pn, k) ==
    [head |-> IF k = 0 THEN NULL ELSE InfoNodePool[1],
     pn |-> [n \in DOMAIN pn |->
               IF \E i \in 1..k : n = InfoNodePool[i]
               THEN LET i == CHOOSE j \in 1..k : n = InfoNodePool[j]
                    IN  IF i < k THEN InfoNodePool[i + 1] ELSE NULL
               ELSE pn[n]]]

\* ptr_chain_iter(n).last(), which push_next calls, returns only when the walk
\* from n comes to an address that is no structure; on a cycle it never does.
WalkEnds(n, pn) == Len(Chain(n, pn)) <= Cardinality(Nodes)

\* How many structures of sel are pushed before a push_next that never
\* returns; Len(sel) when every push_next returns.
RECURSIVE PushedBeforeHang(_, _)
PushedBeforeHang(chain, sel) ==
    IF sel = <<>> \/ ~WalkEnds(Head(sel), chain.pn)
    THEN 0
    ELSE 1 + PushedBeforeHang(push_next(chain, Head(sel)), Tail(sel))

\* add_to_device_create: the pushes in order; it returns the DeviceCreateInfo
\* unless a push_next never returns. No step of it looks at the p_next the
\* descriptors come with.
AddToDeviceCreate ==
    /\ pc = "ready"
    /\ \E k \in 0..MaxInfoChain :
         LET info == IncomingInfo(p_next, k)
             sel == DeviceCreateSelection(some)
             done == PushedBeforeHang(info, sel)
             c == PushAll(info, SubSeq(sel, 1, done))
         IN  /\ incoming' = SubSeq(InfoNodePool, 1, k)
             /\ info_p_next' = c.head
             /\ p_next' = c.pn
             /\ pc' = IF done = Len(sel) THEN "dcBuilt" ELSE "hung"
    /\ log' = Append(log, LinkedDeviceCreate)
    /\ UNCHANGED <<required, supported, features, extensions, some, flags,
                   features_p_next, reported, queryChain>>

\* The caller hands the DeviceCreateInfo to device creation, which reads the
\* chain and returns; nothing of ExtendedFeatures is written.
CreateDevice ==
    /\ pc = "dcBuilt"
    /\ pc' = "created"
    /\ UNCHANGED <<required, supported, features, extensions, some, p_next, flags,
                   features_p_next, info_p_next, incoming, reported, queryChain, log>>

Next ==
    \/ FillExtensions
    \/ BuildQueryChain
    \/ GetPhysicalDeviceFeatures2
    \/ ZeroPointers
    \/ AddToDeviceCreate
    \/ CreateDevice

Spec == Init /\ [][Next]_vars

(* ----------------- a caller that writes a public p_next ---------------- *)

\* The descriptors are public fields and p_next is a public field of each:
\* between from_adapter and add_to_device_create the caller stores the address
\* of one descriptor of the set in the p_next of one descriptor of the set
\* (once: the guard admits no second write).
CallerWritesLink ==
    /\ pc = "ready"
    /\ \A d \in Descriptors : p_next[d] = NULL
    /\ \E d \in Mandatory \cup some, t \in Mandatory \cup some :
         p_next' = [p_next EXCEPT ![d] = t]
    /\ UNCHANGED <<pc, required, supported, features, extensions, some, flags,
                   features_p_next, info_p_next, incoming, reported, queryChain, log>>

NextMisuse ==
    \/ Next
    \/ CallerWritesLink

\* The required list and the requested features play no part in the links:
\* here the adapter requires nothing and the runtime requests nothing.
InitMisuse ==
    /\ Init
    /\ required = <<>>
    /\ features = {}

SpecMisuse == InitMisuse /\ [][NextMisuse]_vars

(* ------------------------------ properties ---------------------------- *)

\* The four probed names, in the order fill_extensions probes them; entry i
\* belongs to field OptionalOrder[i].
RegistryNames ==
    <<KHR_COOPERATIVE_MATRIX_NAME, EXT_SHADER_ATOMIC_FLOAT_NAME,
      EXT_SHADER_ATOMIC_FLOAT2_NAME, KHR_SHADER_FLOAT_CONTROLS2_NAME>>

\* The descriptors the set holds.
Owned == Mandatory \cup some

\* The optional fields whose extension the adapter supports.
SupportedFields == {OptionalOrder[i] : i \in {j \in 1..4 : RegistryNames[j] \in supported}}

Reverse(s) == [i \in 1..Len(s) |-> s[Len(s) + 1 - i]]

\* C1: the p_next of every descriptor the set holds (the five mandatory ones
\* and each Some) is null right before the chain build of fill_features, and
\* null once zero_pointers has returned, which is also right before the chain
\* build of add_to_device_create, whatever the native query left in them.
C1_LinksNullBeforeEachBuild ==
    pc \in {"probed", "ready"} => \A d \in Owned : p_next[d] = NULL

\* Every optional descriptor present, the query done and zero_pointers returned.
C1_Witness ==
    /\ pc = "ready"
    /\ some = Optional
    /\ Len(queryChain) = 9
    /\ \A d \in Owned : p_next[d] = NULL

\* C2: the extension list fill_extensions produces holds no name twice, also
\* when required_device_extensions already returned one of the four probed names.
C2_NoDuplicateExtensions ==
    pc # "start" => NoDuplicates(extensions)

\* C3: once fill_extensions has run, each optional field is Some if and only
\* if the adapter supports its extension, and this stays so through
\* fill_features, zero_pointers and add_to_device_create.
C3_SomeIffSupported ==
    pc # "start" =>
        \A i \in 1..4 : (OptionalOrder[i] \in some) <=> (RegistryNames[i] \in supported)

\* Two of the four supported, and the whole negotiation done.
C3_Witness ==
    /\ pc = "created"
    /\ supported = {KHR_COOPERATIVE_MATRIX_NAME, KHR_SHADER_FLOAT_CONTROLS2_NAME}
    /\ some = {"cmma", "float_controls2"}

\* C4: the descriptors reachable from the head of the query chain are the
\* descriptors add_to_device_create adds to the DeviceCreateInfo chain: the
\* five mandatory ones and exactly the present optional ones.
C4_SameMembership ==
    pc = "dcBuilt" =>
        LET added == Range(Chain(info_p_next, p_next)) \ Range(incoming)
        IN  /\ added = Range(queryChain)
            /\ added = Mandatory \cup SupportedFields

\* Both chains built over a set with two optional descriptors, the second one
\* onto a DeviceCreateInfo that already chained two structures.
C4_Witness ==
    /\ pc = "dcBuilt"
    /\ Len(incoming) = 2
    /\ Cardinality(some) = 2
    /\ Len(queryChain) = 7
    /\ Len(Chain(info_p_next, p_next)) = 9

\* The selected descriptors: the mandatory ones in field order, then the
\* present optional ones in field order.
SelectedInOrder == MandatoryOrder \o SelectSeq(OptionalOrder, LAMBDA f : f \in some)

\* The last structure of a non-empty chain.
LastOf(w) == w[Len(w)]

\* C5 as stated: following p_next from the head of each built chain visits
\* mem_model, float16_int8, buf_16, buf_8, subgroup_extended, then the present
\* optional descriptors cmma, atomic_float, atomic_float2, float_controls2 in
\* that order, and the last selected descriptor's p_next is null.
C5_VisitsInSelectionOrder ==
    /\ pc = "queryBuilt" =>
         /\ Chain(features_p_next, p_next) = SelectedInOrder
         /\ p_next[LastOf(SelectedInOrder)] = NULL
    /\ pc = "dcBuilt" =>
         /\ SelectSeq(Chain(info_p_next, p_next), LAMBDA n : n \in Descriptors)
              = SelectedInOrder
         /\ p_next[LastOf(SelectedInOrder)] = NULL

\* C5, amended: following p_next from the head of each built chain visits the
\* selected descriptors in the reverse of that order (the present optional
\* ones float_controls2, atomic_float2, atomic_float, cmma, then
\* subgroup_extended, buf_8, buf_16, float16_int8, mem_model), each pointing
\* at the next one visited; mem_model, visited last, has a null p_next in the
\* query chain and in the device-create chain points at the chain the incoming
\* DeviceCreateInfo already carried (null when it carried none).
C5_VisitsInReversePushOrder ==
    /\ pc = "queryBuilt" =>
         /\ Chain(features_p_next, p_next) = Reverse(SelectedInOrder)
         /\ p_next["mem_model"] = NULL
    /\ pc = "dcBuilt" =>
         /\ Chain(info_p_next, p_next) = Reverse(SelectedInOrder) \o incoming
         /\ p_next["mem_model"] = (IF incoming = <<>> THEN NULL ELSE incoming[1])
         /\ incoming # <<>> => p_next[LastOf(incoming)] = NULL

\* A device-create chain whose head is float_controls2 and whose mem_model
\* points at the first structure the DeviceCreateInfo came with.
C5_Witness ==
    /\ pc = "dcBuilt"
    /\ some = {"cmma", "float_controls2"}
    /\ info_p_next = "float_controls2"
    /\ p_next["float_controls2"] = "cmma"
    /\ p_next["cmma"] = "subgroup_extended"
    /\ p_next["mem_model"] = "info_ext1"

\* C6: the extension list is the adapter's required list, unchanged, followed
\* by exactly the supported probed names in the order cooperative-matrix,
\* shader-atomic-float, shader-atomic-float2, shader-float-controls2; with
\* exactly {cooperative-matrix, shader-atomic-float} supported it ends with
\* those two in that order and two optional fields are Some.
C6_RequiredThenSupported ==
    pc # "start" =>
        /\ extensions = required \o SelectSeq(RegistryNames, LAMBDA x : x \in supported)
        /\ supported = {KHR_COOPERATIVE_MATRIX_NAME, EXT_SHADER_ATOMIC_FLOAT_NAME} =>
             /\ Len(extensions) = Len(required) + 2
             /\ extensions[Len(extensions) - 1] = KHR_COOPERATIVE_MATRIX_NAME
             /\ extensions[Len(extensions)] = EXT_SHADER_ATOMIC_FLOAT_NAME
             /\ Cardinality(some) = 2

\* The scenario's adapter, with a required list of two names.
C6_Witness ==
    /\ pc = "probed"
    /\ supported = {KHR_COOPERATIVE_MATRIX_NAME, EXT_SHADER_ATOMIC_FLOAT_NAME}
    /\ Len(required) = 2
    /\ Len(extensions) = 4

\* C7 as stated: a mandatory flag the runtime requested and the native query
\* reported unsupported is still set in the descriptor the device-create chain
\* carries.
C7_RequestSurvivesQuery ==
    pc = "dcBuilt" =>
        \A d \in Mandatory, f \in Flags :
            (<<d, f>> \in features /\ f \notin reported[d]) =>
                (d \in Range(Chain(info_p_next, p_next)) /\ f \in flags[d])

\* C7, amended: each mandatory descriptor the device-create chain carries
\* holds exactly the flags the native query reported, so a flag reported
\* unsupported is not requested at device creation, whether or not the runtime
\* requested it.
C7_ChainCarriesQueriedFlags ==
    pc = "dcBuilt" =>
        \A d \in Mandatory :
            /\ d \in Range(Chain(info_p_next, p_next))
            /\ flags[d] = reported[d]

\* The runtime asked for a buf_16 flag, the query reported it unsupported, and
\* the device-create chain is built.
C7_Witness ==
    /\ pc = "dcBuilt"
    /\ features = {<<"buf_16", 1>>}
    /\ 1 \notin reported["buf_16"]
    /\ 1 \notin flags["buf_16"]
    /\ "buf_16" \in Range(Chain(info_p_next, p_next))

\* C8 as stated: outside the window from a chain being built to its consuming
\* call returning (the native query for the query chain, device creation for
\* the device-create chain), every descriptor's p_next is null.
C8_NullOutsideConsumingWindow ==
    pc \notin {"queryBuilt", "dcBuilt"} => \A d \in Descriptors : p_next[d] = NULL

\* C8, amended: every descriptor's p_next is null until the query chain is
\* built, and again from zero_pointers returning until add_to_device_create
\* builds its chain; the links add_to_device_create sets are still set after
\* device creation has returned.
C8_NullOutsideBuildToZero ==
    /\ pc \in {"start", "probed", "ready"} => \A d \in Descriptors : p_next[d] = NULL
    /\ pc = "created" => \A d \in Owned \ {"mem_model"} : p_next[d] \in Descriptors

\* from_adapter has returned with links null although the query ran over a
\* chain of more than the mandatory descriptors.
C8_Witness ==
    /\ pc = "ready"
    /\ Len(queryChain) > 5
    /\ features_p_next = NULL
    /\ \A d \in Descriptors : p_next[d] = NULL

\* C10: with none of the four probed extensions supported, no optional field
\* is Some, the extension list is the adapter's required list, and the query
\* chain handed to the native query is exactly the five mandatory descriptors.
C10_NothingOptional ==
    supported = {} =>
        /\ pc # "start" => (some = {} /\ extensions = required)
        /\ pc = "queryBuilt" =>
             /\ Len(Chain(features_p_next, p_next)) = 5
             /\ Range(Chain(features_p_next, p_next)) = Mandatory
        /\ pc \in {"queried", "ready", "dcBuilt", "created"} =>
             (Len(queryChain) = 5 /\ Range(queryChain) = Mandatory)

\* The native query has run for an adapter that supports none of the four.
C10_Witness ==
    /\ pc = "queried"
    /\ supported = {}
    /\ required # <<>>
    /\ Len(queryChain) = 5

\* C11: a chain-building step invoked while a descriptor of the set has a
\* non-null p_next (here: add_to_device_create after the caller wrote one)
\* aborts and produces no chain; it never builds a chain from the stale link.
C11_AbortsOnStaleLink ==
    [][(/\ pc = "ready"
        /\ pc' # "ready"
        /\ \E d \in Owned : p_next[d] # NULL)
       => (pc' = "aborted" /\ info_p_next' = NULL)]_vars

\* C12: when the adapter's required list names an extension the adapter does
\* not support, the negotiation fails instead of returning the set and the
\* extension list: from_adapter never returns normally.
C12_FailsOnAbsentRequired ==
    (\E i \in 1..Len(required) : required[i] \in ProbedNames \ supported)
        => pc \notin {"ready", "dcBuilt", "created"}

\* The step an entry of log belongs to, as the claim numbers the steps: probe,
\* descriptor construction, query-chain build, native query, sanitize,
\* device-create chain build.
ClaimedStep(e) ==
    CASE e[1] = "probe" -> 1
      [] e[1] = "create" -> 2
      [] e = LinkedQuery -> 3
      [] e = Queried -> 4
      [] e = Sanitized -> 5
      [] OTHER -> 6

\* The same with the probe and the construction of descriptors as one step.
CodeStep(e) ==
    CASE e[1] \in {"probe", "create"} -> 1
      [] e = LinkedQuery -> 2
      [] e = Queried -> 3
      [] e = Sanitized -> 4
      [] OTHER -> 5

Occurrences(e) == Cardinality({i \in 1..Len(log) : log[i] = e})

\* C13 as stated: the steps come in the order probe, descriptor construction,
\* query-chain build, native query, sanitize, device-create chain build, each
\* completing before the next starts; sanitize is never skipped.
C13_StepsInClaimedOrder ==
    /\ \A i, j \in 1..Len(log) : i < j => ClaimedStep(log[i]) <= ClaimedStep(log[j])
    /\ LinkedDeviceCreate \in Range(log) => Sanitized \in Range(log)

\* C13, amended: the five mandatory descriptors exist before the probe starts
\* and each optional descriptor is created inside the probe, right after its
\* extension is found supported; then come, once each and in this order, the
\* query-chain build, the native query, sanitize and the device-create chain
\* build. No descriptor is created after the probe has finished and sanitize
\* is never skipped between the native query and the device-create chain build.
C13_StepsInCodeOrder ==
    /\ \A i, j \in 1..Len(log) : i < j => CodeStep(log[i]) <= CodeStep(log[j])
    /\ \A i \in 1..Len(MandatoryOrder) : log[i] = Created(MandatoryOrder[i])
    /\ \A i \in (Len(MandatoryOrder) + 1)..Len(log) :
         log[i][1] = "create" =>
             \E k \in 1..4 : /\ log[i] = Created(OptionalOrder[k])
                             /\ log[i - 1] = Probed(RegistryNames[k])
    /\ \A e \in {LinkedQuery, Queried, Sanitized, LinkedDeviceCreate} : Occurrences(e) <= 1
    /\ pc # "start" => \A k \in 1..4 : Occurrences(Probed(RegistryNames[k])) = 1
    /\ Queried \in Range(log) => LinkedQuery \in Range(log)
    /\ LinkedDeviceCreate \in Range(log) =>
         (Queried \in Range(log) /\ Sanitized \in Range(log))

\* A whole negotiation with all four optional descriptors created in the probe.
C13_Witness ==
    /\ pc = "dcBuilt"
    /\ Len(log) = 17
    /\ log[Len(log) - 4] = Created("float_controls2")
    /\ log[Len(log) - 1] = Sanitized
    /\ log[Len(log)] = LinkedDeviceCreate

\* A chain from head a is well formed over the structures in allowed: the walk
\* comes to the null link, meets no structure twice, and every link on the
\* way is null or the address of a structure in allowed.
WellFormed(a, pn, allowed) ==
    LET w == Chain(a, pn)
    IN  /\ a \in allowed
        /\ Len(w) <= Cardinality(Nodes)
        /\ NoDuplicates(w)
        /\ pn[LastOf(w)] = NULL
        /\ \A n \in Range(w) : pn[n] \in allowed \cup {NULL}

\* C14: each built chain is well formed for every set of supported optional
\* extensions: from the head the null link is reached after finitely many
\* steps, each selected descriptor is visited exactly once, there is no cycle
\* and no link targets a descriptor the set does not hold.
C14_ChainsWellFormed ==
    /\ pc = "queryBuilt" =>
         /\ WellFormed(features_p_next, p_next, Owned)
         /\ \A d \in Owned :
              Cardinality({i \in 1..Len(Chain(features_p_next, p_next)) :
                             Chain(features_p_next, p_next)[i] = d}) = 1
    /\ pc = "dcBuilt" =>
         /\ WellFormed(info_p_next, p_next, Owned \cup Range(incoming))
         /\ \A d \in Owned :
              Cardinality({i \in 1..Len(Chain(info_p_next, p_next)) :
                             Chain(info_p_next, p_next)[i] = d}) = 1

\* A device-create chain over all nine descriptors and one caller structure.
C14_Witness ==
    /\ pc = "dcBuilt"
    /\ some = Optional
    /\ Len(incoming) = 1
    /\ Len(Chain(info_p_next, p_next)) = 10
    /\ p_next["info_ext1"] = NULL

\* C15: when from_adapter has returned, every descriptor the set holds has
\* exactly the flags the adapter reported for it (none was left out of the
\* query chain with its zeroed flags), and no optional descriptor the set does
\* not hold was written.
C15_OwnedHoldReportedFlags ==
    pc = "ready" =>
        /\ \A d \in Owned : flags[d] = reported[d]
        /\ \A d \in Descriptors \ Owned : flags[d] = {}
        /\ Range(queryChain) = Owned

\* from_adapter has returned; the one optional descriptor holds the flags the
\* adapter reported and an absent one holds none.
C15_Witness ==
    /\ pc = "ready"
    /\ some = {"atomic_float"}
    /\ reported["atomic_float"] = Flags
    /\ flags["atomic_float"] = Flags
    /\ flags["cmma"] = {}

\* C16: zero_pointers changes only p_next fields: the flags the native query
\* wrote, which optional fields are Some, and the extension list are the same
\* after it as before it; so are the links of structures the set does not hold.
C16_ZeroPointersFrame ==
    [][(pc = "queried" /\ pc' = "ready") =>
          /\ flags' = flags
          /\ some' = some
          /\ extensions' = extensions
          /\ \A n \in Nodes \ Owned : p_next'[n] = p_next[n]]_vars

\* zero_pointers has run on descriptors that hold flags, with an optional
\* descriptor present and a non-empty extension list.
C16_Witness ==
    /\ pc = "ready"
    /\ log[Len(log)] = Sanitized
    /\ \A d \in Owned : flags[d] = Flags
    /\ some = {"cmma", "atomic_float2"}
    /\ Len(extensions) = 4

\* C17: add_to_device_create only adds to the DeviceCreateInfo it is given:
\* the structures info already chained stay reachable in their order, the
\* descriptors of the set are added with none dropped and none twice, and
\* neither the flags nor the extension list change.
C17_OnlyAugments ==
    [][(pc = "ready" /\ pc' = "dcBuilt") =>
          LET w == Chain(info_p_next', p_next')
          IN  /\ SelectSeq(w, LAMBDA n : n \in InfoNodes) = incoming'
              /\ NoDuplicates(w)
              /\ Range(w) = Owned \cup Range(incoming')
              /\ Len(w) = Cardinality(Owned) + Len(incoming')
              /\ flags' = flags
              /\ extensions' = extensions
              /\ some' = some]_vars

\* The descriptors were added in front of two structures info came with.
C17_Witness ==
    /\ pc = "dcBuilt"
    /\ incoming = <<"info_ext1", "info_ext2">>
    /\ p_next["mem_model"] = "info_ext1"
    /\ p_next["info_ext1"] = "info_ext2"
    /\ Cardinality(some) = 3
    /\ Len(Chain(info_p_next, p_next)) = 10

====
